---------------------------- MODULE Spec2Model ----------------------------
(***************************************************************************)
(* State-machine model of src/graph.js: a root sphere with two child       *)
(* spheres whose splay angle is driven by the arrow keys, two edges that   *)
(* are rebuilt with the children, and a perspective camera whose fov,      *)
(* near and far planes are driven by the f/F, n/N and r/R keys.            *)
(*                                                                         *)
(* Numbers.  JavaScript numbers are IEEE-754 doubles.  The angle and the   *)
(* near plane move by steps (Math.PI / 36 and 0.1) that are not exactly    *)
(* representable, so every addition rounds.  They are modelled as doubles: *)
(* a Dbl is a sign and a magnitude counted in units of 2^-56, held in two  *)
(* limbs (hi * 2^29 + lo) so that every intermediate stays below 2^31, and *)
(* DblRound rounds an exact sum to the 53-bit significand of its binade    *)
(* (round to nearest, ties to even).  All values the program computes for  *)
(* these two parameters lie in [0, 10.1] and are multiples of 2^-56, so    *)
(* the representation is exact.  fov and far only take integer values      *)
(* (75 +/- 5k, 50 +/- 5k), on which double arithmetic is exact: they are   *)
(* plain integers.                                                         *)
(***************************************************************************)
EXTENDS Integers, Sequences, FiniteSets, TLC

-----------------------------------------------------------------------------
(* IEEE-754 double arithmetic on [neg, hi, lo] records, unit 2^-56.        *)

Limb == 2^29

Dbl(n, h, l) == [neg |-> n, hi |-> h, lo |-> l]

DblZero == Dbl(FALSE, 0, 0)

IsZero(a) == a.hi = 0 /\ a.lo = 0

\* magnitude comparison
MagLess(a, b) == a.hi < b.hi \/ (a.hi = b.hi /\ a.lo < b.lo)

\* a < b on doubles (+0 and -0 compare equal)
DblLess(a, b) ==
    IF IsZero(a) /\ IsZero(b) THEN FALSE
    ELSE IF a.neg /\ ~b.neg THEN TRUE
    ELSE IF ~a.neg /\ b.neg THEN FALSE
    ELSE IF a.neg THEN MagLess(b, a)
    ELSE MagLess(a, b)

\* a == b as JavaScript compares numbers
DblEq(a, b) == ~DblLess(a, b) /\ ~DblLess(b, a)

\* the exponent of the unit in the last place of a magnitude, relative to
\* 2^-56: magnitudes below 2^53 units are exact, a magnitude in
\* [2^(52+j), 2^(53+j)) has ulp 2^j.  hi = magnitude \div 2^29.
RECURSIVE UlpExp(_)
UlpExp(h) == IF h < 2^24 THEN 0 ELSE 1 + UlpExp(h \div 2)

\* round an exact magnitude to the nearest double, ties to even
DblRound(a) ==
    LET ulp  == 2^UlpExp(a.hi)
        q    == a.lo \div ulp
        r    == a.lo % ulp
        up   == 2 * r > ulp \/ (2 * r = ulp /\ q % 2 = 1)
        lo1  == (IF up THEN q + 1 ELSE q) * ulp
    IN  IF lo1 >= Limb THEN Dbl(a.neg, a.hi + 1, lo1 - Limb)
        ELSE Dbl(a.neg, a.hi, lo1)

\* exact sum and difference of magnitudes (difference needs b <= a)
MagAdd(a, b) ==
    LET l == a.lo + b.lo
    IN  IF l >= Limb THEN Dbl(FALSE, a.hi + b.hi + 1, l - Limb)
        ELSE Dbl(FALSE, a.hi + b.hi, l)

MagSub(a, b) ==
    IF a.lo >= b.lo THEN Dbl(FALSE, a.hi - b.hi, a.lo - b.lo)
    ELSE Dbl(FALSE, a.hi - b.hi - 1, a.lo + Limb - b.lo)

\* a + b and a - b for non-negative doubles a, b
DblAdd(a, b) == DblRound(MagAdd(a, b))

DblSub(a, b) ==
    IF MagLess(a, b) THEN [DblRound(MagSub(b, a)) EXCEPT !.neg = TRUE]
    ELSE DblRound(MagSub(a, b))

\* Math.max and Math.min
DblMax(a, b) == IF DblLess(a, b) THEN b ELSE a

DblMin(a, b) == IF DblLess(b, a) THEN b ELSE a


\* the double constants of the program, in units of 2^-56
\*   Math.PI      = 0x1.921fb54442d18p+1 = 226375608064910080 * 2^-56
\*   Math.PI / 4  = 0x1.921fb54442d18p-1 =  56593902016227520 * 2^-56
\*   Math.PI / 36 = 0x1.657184ae74487p-4 =   6288211335136391 * 2^-56
\*   0.1          = 0x1.999999999999ap-4 =   7205759403792794 * 2^-56
\*   10           =                        720575940379279360 * 2^-56
MathPI == Dbl(FALSE, 421657428, 142975744)

initialAngle == Dbl(FALSE, 105414357, 35743936)

\* seeded fault: a step of Math.PI / 18 (10 degrees)
\*   Math.PI / 18 = 0x1.657184ae74487p-3
stepTenDegrees == Dbl(FALSE, 23425412, 365857038)

step == Dbl(FALSE, 11712706, 182928519)

Tenth == Dbl(FALSE, 13421772, 429496730)

Ten == Dbl(FALSE, 1342177280, 0)

-----------------------------------------------------------------------------
(* Positions.  Math.sin and Math.cos are implementation-approximated in    *)
(* ECMAScript; the model evaluates them in fixed point with four decimal   *)
(* places (Scale units per 1.0) from their Taylor polynomials on           *)
(* [0, pi/2], which keeps sin(0) = 0 and cos(0) = 1 exact.  Coordinates    *)
(* are integers in the same unit.                                          *)

Scale == 10^4

\* angle / 2 is exact on doubles; the half angle as a fixed-point number:
\* angle = (hi * 2^29 + lo) * 2^-56, so angle / 2 = hi * 2^-28 + ...
HalfAngleFix(angle) == ((angle.hi \div 2^13) * Scale) \div 2^15

\* x * y in fixed point
FixMul(x, y) == (x * y) \div Scale

MathSin(h) ==
    LET h2 == FixMul(h, h)
        t3 == FixMul(h, h2) \div 6
        t5 == FixMul(t3, h2) \div 20
        t7 == FixMul(t5, h2) \div 42
        t9 == FixMul(t7, h2) \div 72
    IN  h - t3 + t5 - t7 + t9

MathCos(h) ==
    LET h2  == FixMul(h, h)
        t2  == h2 \div 2
        t4  == FixMul(t2, h2) \div 12
        t6  == FixMul(t4, h2) \div 30
        t8  == FixMul(t6, h2) \div 56
        t10 == FixMul(t8, h2) \div 90
    IN  Scale - t2 + t4 - t6 + t8 - t10

Vec(a, b, c) == [x |-> a, y |-> b, z |-> c]

\* THREE.Vector3.subVectors(a, b)
subVectors(a, b) == Vec(a.x - b.x, a.y - b.y, a.z - b.z)

-----------------------------------------------------------------------------
(* Objects.  Every THREE object the program creates lives in the heap, a   *)
(* function from object identities to records; variables and the scene's   *)
(* children hold identities.  An identity no variable and no scene child   *)
(* refers to any more is garbage and may be handed out again.              *)

\* the value of a variable that was declared and not yet assigned; no
\* object has this identity
Undefined == 0

mainSphereColor == 4500104

childSphereColor == 4491434

edgeColor == 11184810

distance == 3

Range(s) == {s[i] : i \in DOMAIN s}

\* the least identity not in use
Fresh(used) ==
    CHOOSE i \in 1..(Cardinality(used) + 1) :
        i \notin used /\ \A j \in 1..(i - 1) : j \in used

\* the heap restricted to what the roots can still reach
Collect(h, roots) == [i \in DOMAIN h \cap roots |-> h[i]]

\* Object3D.add: an object already in the scene is moved to the end
SceneAdd(sc, id) == Append(SelectSeq(sc, LAMBDA i : i # id), id)

\* Object3D.remove: no effect when the object is not a child
SceneRemove(sc, id) == SelectSeq(sc, LAMBDA i : i # id)

createSphere(color) ==
    [kind |-> "sphere", color |-> color, position |-> Vec(0, 0, 0)]

\* the cylinder keeps what it was built from: the direction (its length and
\* orientation derive from it) and both end points, by value
createEdge(start, end) ==
    [kind |-> "edge", color |-> edgeColor,
     start |-> start, end |-> end, direction |-> subVectors(end, start)]

-----------------------------------------------------------------------------
(* State.                                                                  *)

VARIABLES
    pc,                    \* "load" before main, "running" after it, "nocanvas"
    win,                   \* window.innerWidth, window.innerHeight
    renderer,              \* the renderer's size, or Undefined
    scene,                 \* scene.children: a sequence of identities
    camera,                \* the PerspectiveCamera, or Undefined
    heap,                  \* identity -> object
    mainSphere, childSphere1, childSphere2, edge1, edge2,
    cameraHelper,
    fov, near, far,
    angleBetweenChildren,
    fontLoad,              \* the FontLoader request: "idle", "pending", "done"
    rafPending,            \* a requestAnimationFrame(render) is outstanding
    lastEvent,             \* the handler that ran last
    rightRun               \* history: ArrowRight presses so far while no
                           \* ArrowLeft was pressed, -1 once that is lost

vars == <<pc, win, renderer, scene, camera, heap, mainSphere, childSphere1,
          childSphere2, edge1, edge2, cameraHelper, fov, near, far,
          angleBetweenChildren, fontLoad, rafPending, lastEvent, rightRun>>

\* the window sizes the environment may choose
WinSizes == {<<800, 600>>, <<1024, 768>>, <<1920, 1080>>}

\* the longest run of ArrowRight presses that is counted
MaxRun == 30

RECURSIVE Gcd(_, _)
Gcd(a, b) == IF b = 0 THEN a ELSE Gcd(b, a % b)

\* window.innerWidth / window.innerHeight: the quotient, as a reduced fraction
Aspect(w) == <<w[1] \div Gcd(w[1], w[2]), w[2] \div Gcd(w[1], w[2])>>

\* PerspectiveCamera.updateProjectionMatrix: the matrix is a function of
\* the four fields at the time of the call
updateProjectionMatrix(cam) ==
    [cam EXCEPT !.projection =
        [fov |-> cam.fov, aspect |-> cam.aspect, near |-> cam.near, far |-> cam.far]]

\* new THREE.PerspectiveCamera(fov, aspect, near, far)
PerspectiveCamera(f, a, n, r) ==
    updateProjectionMatrix(
        [fov |-> f, aspect |-> a, near |-> n, far |-> r, z |-> 0,
         projection |-> Undefined])

\* CameraHelper.update: the helper's lines are rebuilt from the camera's
\* projection matrix
HelperUpdate(h, helper, cam) == [h EXCEPT ![helper].frustum = cam.projection]

Init ==
    /\ pc = "load"
    /\ win = <<800, 600>>
    /\ renderer = Undefined
    /\ scene = Undefined
    /\ camera = Undefined
    /\ heap = <<>>
    /\ mainSphere = Undefined
    /\ childSphere1 = Undefined
    /\ childSphere2 = Undefined
    /\ edge1 = Undefined
    /\ edge2 = Undefined
    /\ cameraHelper = Undefined
    /\ fov = 75
    /\ near = Tenth
    /\ far = 50
    /\ angleBetweenChildren = initialAngle
    /\ fontLoad = "idle"
    /\ rafPending = FALSE
    /\ lastEvent = "load"
    /\ rightRun = 0

-----------------------------------------------------------------------------
(* updateChildPositions, as a function from the objects it reads to the    *)
(* objects it leaves: [heap, scene, edge1, edge2].                         *)

\* seeded fault: both coordinates scaled by the half angle, not the distance
ChildPositionScaledByAngle(angle, side) ==
    LET halfAngle == HalfAngleFix(angle)
    IN  Vec(FixMul(side * MathSin(halfAngle), halfAngle),
            -halfAngle,
            FixMul(-MathCos(halfAngle), halfAngle))

\* seeded fault: the second child is not mirrored
ChildPositionNotMirrored(angle, side) ==
    LET halfAngle == HalfAngleFix(angle)
    IN  Vec(MathSin(halfAngle) * distance,
            (-distance) * Scale,
            (-MathCos(halfAngle)) * distance)

\* seeded fault: the positions are computed from the initial angle
ChildPositionOfInitialAngle(angle, side) ==
    LET halfAngle == HalfAngleFix(initialAngle)
    IN  Vec(side * MathSin(halfAngle) * distance,
            (-distance) * Scale,
            (-MathCos(halfAngle)) * distance)

\* the position written to a child: side is 1 for childSphere1, -1 for
\* childSphere2
ChildPosition(angle, side) ==
    LET halfAngle == HalfAngleFix(angle)
    IN  Vec(side * MathSin(halfAngle) * distance,
            (-distance) * Scale,
            (-MathCos(halfAngle)) * distance)

\* the identities the program still refers to
Roots(sc, globals) == Range(sc) \cup (globals \ {Undefined})

\* seeded fault: only edge1 is removed
removeOldEdgesFirstOnly(sc, e1, e2) == SceneRemove(sc, e1)

\* scene.remove(edge1); scene.remove(edge2)
removeOldEdges(sc, e1, e2) == SceneRemove(SceneRemove(sc, e1), e2)

updateChildPositions(h, sc, m, c1, c2, e1, e2, helper, angle) ==
    LET p1  == ChildPosition(angle, 1)
        p2  == ChildPosition(angle, -1)
        \* Remove old edges
        sc1 == removeOldEdges(sc, e1, e2)
        \* Create new edges: edge1 while the old edge1 and edge2 are still
        \* referred to, edge2 when the old edge1 no longer is
        n1  == Fresh(DOMAIN h)
        n2  == Fresh((DOMAIN h \cup {n1}) \cap Roots(sc1, {m, c1, c2, helper, n1, e2}))
    IN  [heap  |-> Collect(
                      Collect([h EXCEPT ![c1].position = p1, ![c2].position = p2]
                              @@ (n1 :> createEdge(h[m].position, p1)),
                              Roots(sc1, {m, c1, c2, helper, n1, e2}))
                      @@ (n2 :> createEdge(h[m].position, p2)),
                      Roots(sc1, {m, c1, c2, helper, n1, n2})),
         scene |-> SceneAdd(SceneAdd(sc1, n1), n2),
         edge1 |-> n1, edge2 |-> n2]

-----------------------------------------------------------------------------
(* main: runs once, when the DOM is ready.  Without a canvas it returns    *)
(* before anything is created.                                             *)

main(canvas) ==
    /\ pc = "load"
    /\ IF ~canvas
       THEN /\ pc' = "nocanvas"
            /\ UNCHANGED <<renderer, scene, camera, heap, mainSphere, childSphere1,
                           childSphere2, edge1, edge2, cameraHelper, fontLoad,
                           rafPending>>
       ELSE \E u \in {updateChildPositions(
                          (1 :> createSphere(mainSphereColor))
                          @@ (2 :> createSphere(childSphereColor))
                          @@ (3 :> createSphere(childSphereColor)),
                          SceneAdd(SceneAdd(SceneAdd(<<>>, 1), 2), 3),
                          1, 2, 3, edge1, edge2, cameraHelper,
                          angleBetweenChildren)} :
            LET cam == [PerspectiveCamera(fov, Aspect(win), near, far)
                            EXCEPT !.z = 10]
                \* grid, coloured axes, camera helper
                g   == Fresh(DOMAIN u.heap)
                a   == Fresh(DOMAIN u.heap \cup {g})
                ch  == Fresh(DOMAIN u.heap \cup {g, a})
            IN  /\ pc' = "running"
                /\ renderer' = win
                /\ camera' = cam
                /\ mainSphere' = 1
                /\ childSphere1' = 2
                /\ childSphere2' = 3
                /\ edge1' = u.edge1
                /\ edge2' = u.edge2
                /\ cameraHelper' = ch
                /\ heap' = u.heap @@ (g :> [kind |-> "grid"])
                                  @@ (a :> [kind |-> "axes"])
                                  @@ (ch :> [kind |-> "cameraHelper",
                                             frustum |-> cam.projection])
                /\ scene' = SceneAdd(SceneAdd(SceneAdd(u.scene, g), a), ch)
                /\ fontLoad' = "pending"
                /\ rafPending' = TRUE
    /\ lastEvent' = "main"
    /\ UNCHANGED <<win, fov, near, far, angleBetweenChildren, rightRun>>

-----------------------------------------------------------------------------
(* The font loader's callback: the three axis labels join the scene.  It   *)
(* runs at most once, at any time after main, or never (the request may    *)
(* fail or stay pending).                                                  *)

\* seeded fault: the callback puts the labels in the place of edge2
fontLoadedOverEdge ==
    /\ pc = "running"
    /\ fontLoad = "pending"
    /\ LET x == Fresh(DOMAIN heap)
           y == Fresh(DOMAIN heap \cup {x})
           z == Fresh(DOMAIN heap \cup {x, y})
       IN  /\ heap' = heap @@ (x :> [kind |-> "label", text |-> "X"])
                           @@ (y :> [kind |-> "label", text |-> "Y"])
                           @@ (z :> [kind |-> "label", text |-> "Z"])
           /\ scene' = SceneAdd(SceneAdd(SceneAdd(SceneRemove(scene, edge2), x), y), z)
    /\ fontLoad' = "done"
    /\ lastEvent' = "font"
    /\ UNCHANGED <<pc, win, renderer, camera, mainSphere, childSphere1,
                   childSphere2, edge1, edge2, cameraHelper, fov, near, far,
                   angleBetweenChildren, rafPending, rightRun>>

fontLoaded ==
    /\ pc = "running"
    /\ fontLoad = "pending"
    /\ LET x == Fresh(DOMAIN heap)
           y == Fresh(DOMAIN heap \cup {x})
           z == Fresh(DOMAIN heap \cup {x, y})
       IN  /\ heap' = heap @@ (x :> [kind |-> "label", text |-> "X"])
                           @@ (y :> [kind |-> "label", text |-> "Y"])
                           @@ (z :> [kind |-> "label", text |-> "Z"])
           /\ scene' = SceneAdd(SceneAdd(SceneAdd(scene, x), y), z)
    /\ fontLoad' = "done"
    /\ lastEvent' = "font"
    /\ UNCHANGED <<pc, win, renderer, camera, mainSphere, childSphere1,
                   childSphere2, edge1, edge2, cameraHelper, fov, near, far,
                   angleBetweenChildren, rafPending, rightRun>>

-----------------------------------------------------------------------------
(* seeded fault: the resize listener builds the projection from the        *)
(* initial field of view                                                   *)

onWindowResizeResetsFov(w) ==
    /\ pc = "running"
    /\ win' = w
    /\ LET cam == updateProjectionMatrix(
                      [camera EXCEPT !.aspect = Aspect(w), !.fov = 75])
       IN  /\ camera' = cam
           /\ renderer' = w
           /\ heap' = HelperUpdate(heap, cameraHelper, cam)
    /\ lastEvent' = "resize"
    /\ UNCHANGED <<pc, scene, mainSphere, childSphere1, childSphere2, edge1,
                   edge2, cameraHelper, fov, near, far, angleBetweenChildren,
                   fontLoad, rafPending, rightRun>>

-----------------------------------------------------------------------------
(* The window is resized to w and the resize listener runs.                *)

onWindowResize(w) ==
    /\ pc = "running"
    /\ win' = w
    /\ LET cam == updateProjectionMatrix([camera EXCEPT !.aspect = Aspect(w)])
       IN  /\ camera' = cam
           /\ renderer' = w
           /\ heap' = HelperUpdate(heap, cameraHelper, cam)
    /\ lastEvent' = "resize"
    /\ UNCHANGED <<pc, scene, mainSphere, childSphere1, childSphere2, edge1,
                   edge2, cameraHelper, fov, near, far, angleBetweenChildren,
                   fontLoad, rafPending, rightRun>>

-----------------------------------------------------------------------------
(* Key presses.                                                            *)

\* seeded fault: camera.near is not written
updateCameraWithoutNear(f, n, r) ==
    LET cam == updateProjectionMatrix([camera EXCEPT !.fov = f, !.far = r])
    IN  /\ camera' = cam
        /\ heap' = HelperUpdate(heap, cameraHelper, cam)

\* updateCamera, given the new values of fov, near and far
updateCamera(f, n, r) ==
    LET cam == updateProjectionMatrix(
                   [camera EXCEPT !.fov = f, !.near = n, !.far = r])
    IN  /\ camera' = cam
        /\ heap' = HelperUpdate(heap, cameraHelper, cam)

Max(a, b) == IF a < b THEN b ELSE a

Min(a, b) == IF b < a THEN b ELSE a

\* seeded fault: the arrow keys also reset far
AngleKeyResetsFar(angle) ==
    \E u \in {updateChildPositions(heap, scene, mainSphere, childSphere1,
                                   childSphere2, edge1, edge2, cameraHelper, angle)} :
        /\ angleBetweenChildren' = angle
        /\ heap' = u.heap
        /\ scene' = u.scene
        /\ edge1' = u.edge1
        /\ edge2' = u.edge2
        /\ far' = 10
        /\ UNCHANGED <<camera, fov, near>>

\* the arrow keys: the new angle, then updateChildPositions
AngleKey(angle) ==
    \E u \in {updateChildPositions(heap, scene, mainSphere, childSphere1,
                                   childSphere2, edge1, edge2, cameraHelper, angle)} :
        /\ angleBetweenChildren' = angle
        /\ heap' = u.heap
        /\ scene' = u.scene
        /\ edge1' = u.edge1
        /\ edge2' = u.edge2
        /\ UNCHANGED <<camera, fov, near, far>>

\* the camera keys: the new fov, near and far, then updateCamera
CameraKey(f, n, r) ==
    /\ fov' = f
    /\ near' = n
    /\ far' = r
    /\ updateCamera(f, n, r)
    /\ UNCHANGED <<angleBetweenChildren, scene, edge1, edge2>>

\* the value each key writes, from the value it reads

\* seeded fault: ArrowLeft steps by 0.1
angleLeftByTenth(angle) == DblMax(DblZero, DblSub(angle, Tenth))

angleLeft(angle) == DblMax(DblZero, DblSub(angle, step))

\* seeded fault: no clamp at Math.PI
angleRightUnclamped(angle) == DblAdd(angle, step)

angleRight(angle) == DblMin(MathPI, DblAdd(angle, step))

\* seeded fault: the lower clamp of fov is 5
fovDownToFive(f) == Max(5, f - 5)

fovDown(f) == Max(10, f - 5)

fovUp(f) == Min(120, f + 5)

nearDown(n) == DblMax(Tenth, DblSub(n, Tenth))

\* seeded fault: no clamp at 10
nearUpUnclamped(n) == DblAdd(n, Tenth)

nearUp(n) == DblMin(Ten, DblAdd(n, Tenth))

\* seeded fault: the lower clamp of far is 5
farDownToFive(r) == Max(5, r - 5)

farDown(r) == Max(10, r - 5)

farUp(r) == Min(100, r + 5)

onKeyDown(key) ==
    /\ pc = "running"
    /\ CASE key = "ArrowLeft" -> AngleKey(angleLeft(angleBetweenChildren))
         [] key = "ArrowRight" -> AngleKey(angleRight(angleBetweenChildren))
         [] key = "f" -> CameraKey(fovDown(fov), near, far)
         [] key = "F" -> CameraKey(fovUp(fov), near, far)
         [] key = "n" -> CameraKey(fov, nearDown(near), far)
         [] key = "N" -> CameraKey(fov, nearUp(near), far)
         [] key = "r" -> CameraKey(fov, near, farDown(far))
         [] key = "R" -> CameraKey(fov, near, farUp(far))
         [] OTHER ->
              UNCHANGED <<camera, heap, scene, edge1, edge2, fov, near, far,
                          angleBetweenChildren>>
    /\ rightRun' = CASE key = "ArrowRight" ->
                          IF rightRun >= 0 /\ rightRun < MaxRun
                          THEN rightRun + 1 ELSE -1
                     [] key = "ArrowLeft" -> -1
                     [] OTHER -> rightRun
    /\ lastEvent' = "keydown"
    /\ UNCHANGED <<pc, win, renderer, mainSphere, childSphere1, childSphere2,
                   cameraHelper, fontLoad, rafPending>>

-----------------------------------------------------------------------------
(* render: one animation frame.  It draws the scene through the camera     *)
(* and asks for the next frame.  controls.update() moves the camera about  *)
(* its target on pointer input only and touches none of fov, near, far or  *)
(* aspect; the camera's pose is not part of the state.                     *)

\* seeded fault: the frame does not ask for the next one
renderOnce ==
    /\ pc = "running"
    /\ rafPending
    /\ rafPending' = FALSE
    /\ lastEvent' = "render"
    /\ UNCHANGED <<pc, win, renderer, scene, camera, heap, mainSphere,
                   childSphere1, childSphere2, edge1, edge2, cameraHelper, fov,
                   near, far, angleBetweenChildren, fontLoad, rightRun>>

render ==
    /\ pc = "running"
    /\ rafPending
    /\ rafPending' = TRUE
    /\ lastEvent' = "render"
    /\ UNCHANGED <<pc, win, renderer, scene, camera, heap, mainSphere,
                   childSphere1, childSphere2, edge1, edge2, cameraHelper, fov,
                   near, far, angleBetweenChildren, fontLoad, rightRun>>

-----------------------------------------------------------------------------
(* Specifications.  The parameters move independently, so each             *)
(* specification explores the keys of one group: SpecAngle the arrow keys  *)
(* (and a key the program does not know), SpecCamera the six camera keys,  *)
(* SpecResize one key of each kind together with the resize listener.      *)
(* All run main and the render loop.  The window starts at 800 x 600.      *)

AngleKeys == {"ArrowLeft", "ArrowRight", "Escape"}

CameraKeys == {"f", "F", "n", "N", "r", "R"}

ResizeKeys == {"ArrowLeft", "F", "r"}

NextAngle ==
    \/ \E canvas \in BOOLEAN : main(canvas)
    \/ \E key \in AngleKeys : onKeyDown(key)
    \/ \E w \in WinSizes : onWindowResize(w)
    \/ fontLoaded
    \/ render

SpecAngle == Init /\ [][NextAngle]_vars

NextCamera ==
    \/ \E canvas \in BOOLEAN : main(canvas)
    \/ \E key \in CameraKeys : onKeyDown(key)
    \/ render

SpecCamera == Init /\ [][NextCamera]_vars

NextResize ==
    \/ \E canvas \in BOOLEAN : main(canvas)
    \/ \E key \in ResizeKeys : onKeyDown(key)
    \/ \E w \in WinSizes : onWindowResize(w)
    \/ fontLoaded
    \/ render

SpecResize == Init /\ [][NextResize]_vars

\* SpecKeys: every key, pressed by a user who tunes one parameter at a
\* time: a key is pressed only while the parameters of the other keys have
\* their initial values.
AllKeys == AngleKeys \cup CameraKeys

OthersInitial(key) ==
    /\ key \in {"ArrowLeft", "ArrowRight"} \/ angleBetweenChildren = initialAngle
    /\ key \in {"f", "F"} \/ fov = 75
    /\ key \in {"n", "N"} \/ near = Tenth
    /\ key \in {"r", "R"} \/ far = 50

NextKeys ==
    \/ \E canvas \in BOOLEAN : main(canvas)
    \/ \E key \in AllKeys : OthersInitial(key) /\ onKeyDown(key)
    \/ \E w \in WinSizes : onWindowResize(w)
    \/ fontLoaded
    \/ render

SpecKeys == Init /\ [][NextKeys]_vars

\* the browser runs the callback of a requested animation frame
FairKeys == SpecKeys /\ WF_vars(render)

-----------------------------------------------------------------------------
(* Properties.                                                             *)

DblLeq(a, b) == ~DblLess(b, a)

\* a double n against an integer r (r * 2^27 is the hi limb of r)
NearBelow(n, r) == n.hi \div 2^27 < r

NearAbove(n, r) ==
    \/ n.hi \div 2^27 > r
    \/ n.hi \div 2^27 = r /\ (n.hi % 2^27 # 0 \/ n.lo # 0)

IsEdge(i) == heap[i].kind = "edge"

\* C1: the angle between the children stays in [0, Math.PI] whatever keys
\* are pressed: ArrowRight never takes it above pi, ArrowLeft never below 0.
C1_AngleInRange ==
    /\ DblLeq(DblZero, angleBetweenChildren)
    /\ DblLeq(angleBetweenChildren, MathPI)

\* an ArrowRight press arrived with the angle already at pi and left it there
C1_Witness == angleBetweenChildren = MathPI /\ rightRun = MaxRun

\* C2: whenever a frame is rendered the scene holds exactly two edges, edge1
\* from the root to child 1 and edge2 from the root to child 2, each built
\* from the positions that belong to the current angle.
C2_TwoCurrentEdgesAtRender ==
    lastEvent = "render" =>
        /\ Len(SelectSeq(scene, IsEdge)) = 2
        /\ edge1 # edge2
        /\ {edge1, edge2} \subseteq Range(scene)
        /\ heap[childSphere1].position = ChildPosition(angleBetweenChildren, 1)
        /\ heap[childSphere2].position = ChildPosition(angleBetweenChildren, -1)
        /\ heap[edge1].start = heap[mainSphere].position
        /\ heap[edge1].end = heap[childSphere1].position
        /\ heap[edge2].start = heap[mainSphere].position
        /\ heap[edge2].end = heap[childSphere2].position

\* a frame rendered after the edges were rebuilt at least twice from the same
\* end points (the presses after the one that reached pi)
C2_Witness ==
    lastEvent = "render" /\ angleBetweenChildren = MathPI /\ rightRun = MaxRun

\* C3: the camera parameters stay in their clamp ranges: fov in [10, 120],
\* near in [0.1, 10], far in [10, 100].
C3_CameraInRange ==
    /\ 10 <= fov /\ fov <= 120
    /\ DblLeq(Tenth, near) /\ DblLeq(near, Ten)
    /\ 10 <= far /\ far <= 100

\* all three saturated: near reaches 10 only by the clamp
C3_Witness == fov = 10 /\ near = Ten /\ far = 100 /\ lastEvent = "keydown"

\* C4: near < far in every reachable state.
C4_NearBelowFar == NearBelow(near, far)

\* the (near, far) pairs that key presses reach from (n, r)
NearFarImage(S) ==
    {<<nearDown(s[1]), s[2]>> : s \in S} \cup {<<nearUp(s[1]), s[2]>> : s \in S}
    \cup {<<s[1], farDown(s[2])>> : s \in S} \cup {<<s[1], farUp(s[2])>> : s \in S}

RECURSIVE NearFarClosure(_, _)
NearFarClosure(seen, frontier) ==
    IF frontier = {} THEN seen
    ELSE LET new == {s \in NearFarImage(frontier) : s \notin seen}
         IN  NearFarClosure({s \in seen \cup new : TRUE}, new)

NearFarReachable(n, r) == NearFarClosure({<<n, r>>}, {<<n, r>>})

\* C5 as stated: from the initial state some sequence of key presses reaches
\* near > far.
C5_InvertedReachable ==
    lastEvent = "load" =>
        \E s \in NearFarReachable(near, far) : NearAbove(s[1], s[2])

\* C5: near = far = 10 is reachable and is the worst case: near never
\* exceeds far.
C5_NearNeverAboveFar == ~NearAbove(near, far)

C5_Witness == near = Ten /\ far = 10 /\ lastEvent = "keydown"

\* C6: createEdge is never called with start = end, not even at angle 0
\* where the two children coincide.
C6_EdgeEndsDiffer ==
    \A i \in DOMAIN heap : IsEdge(i) => heap[i].start # heap[i].end

\* the edges were rebuilt at angle 0 with both children on one point
C6_Witness ==
    /\ pc = "running"
    /\ IsZero(angleBetweenChildren)
    /\ lastEvent = "keydown"
    /\ heap[childSphere1].position = heap[childSphere2].position
    /\ heap[edge1].end = heap[edge2].end

\* C7: whenever a frame is rendered the camera's fov, near and far are the
\* current parameters, its projection was computed from them and the
\* frustum helper shows that projection.
C7_CameraAppliedAtRender ==
    lastEvent = "render" =>
        /\ camera.fov = fov /\ camera.near = near /\ camera.far = far
        /\ camera.projection = [fov |-> fov, aspect |-> camera.aspect,
                                near |-> near, far |-> far]
        /\ heap[cameraHelper].frustum = camera.projection

C7_Witness ==
    lastEvent = "render" /\ fov # 75 /\ near # Tenth /\ far # 50

\* C8: a resize sets the camera's aspect to width / height, the renderer's
\* size and the frustum helper, and nothing else: angle, child positions,
\* edges, fov, near and far stay as they are.
C8_ResizeFrame ==
    [][lastEvent' = "resize" =>
        /\ camera'.aspect = Aspect(win')
        /\ camera'.fov = camera.fov
        /\ camera'.near = camera.near
        /\ camera'.far = camera.far
        /\ camera'.z = camera.z
        /\ camera'.projection = [fov |-> camera.fov, aspect |-> Aspect(win'),
                                 near |-> camera.near, far |-> camera.far]
        /\ renderer' = win'
        /\ DOMAIN heap' = DOMAIN heap
        /\ \A i \in DOMAIN heap : i # cameraHelper => heap'[i] = heap[i]
        /\ heap'[cameraHelper].frustum = camera'.projection
        /\ UNCHANGED <<pc, scene, mainSphere, childSphere1, childSphere2,
                       edge1, edge2, cameraHelper, fov, near, far,
                       angleBetweenChildren, fontLoad, rafPending>>]_vars

\* a resize to 1920 x 1080 after the angle, fov and far were changed
C8_Witness ==
    /\ lastEvent = "resize"
    /\ win = <<1920, 1080>>
    /\ camera.aspect = <<16, 9>>
    /\ fov # 75 /\ far # 50
    /\ angleBetweenChildren # initialAngle

\* the angles the claim names: 45 degrees, 5 degrees and 180 degrees as
\* doubles, and 45 + 5 k degrees (capped at 180) computed without rounding
Degrees45 == Dbl(FALSE, 105414357, 35743936)

Degrees5 == Dbl(FALSE, 11712706, 182928519)

Degrees180 == Dbl(FALSE, 421657428, 142975744)

RECURSIVE ExactSum(_)
ExactSum(k) == IF k = 0 THEN Degrees45 ELSE MagAdd(ExactSum(k - 1), Degrees5)

ExactTarget(k) ==
    IF MagLess(Degrees180, ExactSum(k)) THEN Degrees180 ELSE ExactSum(k)

\* |a - b| <= tol units of 2^-56, for non-negative a and b
Within(a, b, tol) ==
    LET d == IF MagLess(a, b) THEN MagSub(b, a) ELSE MagSub(a, b)
    IN  d.hi = 0 /\ d.lo <= tol

\* C9 as stated: after k ArrowRight presses from the initial angle the angle
\* is min(180, 45 + 5 k) degrees, that is the double nearest to it.
C9_ExactAfterRights ==
    rightRun >= 0 => angleBetweenChildren = DblRound(ExactTarget(rightRun))

\* C9: after k ArrowRight presses from the initial angle the angle is within
\* 2^-48 of min(180, 45 + 5 k) degrees and never above 180 degrees.
C9_CloseAfterRights ==
    rightRun >= 0 =>
        /\ Within(angleBetweenChildren, ExactTarget(rightRun), 2^8)
        /\ DblLeq(angleBetweenChildren, Degrees180)

\* the tenth press (95 degrees)
C9_Witness == rightRun = 10 /\ lastEvent = "keydown"

\* C10: the two children are mirror images under negation of x: x1 = -x2,
\* y1 = y2 = -distance, z1 = z2.
C10_ChildrenMirrored ==
    pc = "running" =>
        LET p1 == heap[childSphere1].position
            p2 == heap[childSphere2].position
        IN  /\ p1.x = -p2.x
            /\ p1.y = p2.y
            /\ p1.y = (-distance) * Scale
            /\ p1.z = p2.z

\* children spread apart to both sides after the angle was changed
C10_Witness ==
    /\ pc = "running"
    /\ angleBetweenChildren = MathPI
    /\ heap[childSphere1].position.x > 0
    /\ heap[childSphere2].position.x < 0

\* a key's clamp is hit when the unclamped result leaves [0, Math.PI]
LeftClamps(angle) == DblLess(DblSub(angle, step), DblZero)

RightClamps(angle) == DblLess(MathPI, DblAdd(angle, step))

\* every coordinate of p within tol (in units of 1 / Scale) of q
VecClose(p, q, tol) ==
    /\ p.x - q.x <= tol /\ q.x - p.x <= tol
    /\ p.y - q.y <= tol /\ q.y - p.y <= tol
    /\ p.z - q.z <= tol /\ q.z - p.z <= tol

\* the state a further arrow key leaves when pressed after this step, given
\* the angle it writes: compared with the state before this step
BackWithin(angle, tolAngle, tolPos) ==
    LET u == updateChildPositions(heap', scene', mainSphere', childSphere1',
                                  childSphere2', edge1', edge2', cameraHelper',
                                  angle)
    IN  /\ Within(angle, angleBetweenChildren, tolAngle)
        /\ VecClose(u.heap[childSphere1].position,
                    heap[childSphere1].position, tolPos)
        /\ VecClose(u.heap[childSphere2].position,
                    heap[childSphere2].position, tolPos)
        /\ VecClose(u.heap[u.edge1].start, heap[edge1].start, tolPos)
        /\ VecClose(u.heap[u.edge1].end, heap[edge1].end, tolPos)
        /\ VecClose(u.heap[u.edge2].start, heap[edge2].start, tolPos)
        /\ VecClose(u.heap[u.edge2].end, heap[edge2].end, tolPos)

\* an unclamped ArrowRight step whose ArrowLeft would be unclamped too, and
\* the other way round
RightThenLeft ==
    /\ onKeyDown("ArrowRight")
    /\ ~RightClamps(angleBetweenChildren)
    /\ ~LeftClamps(angleBetweenChildren')

LeftThenRight ==
    /\ onKeyDown("ArrowLeft")
    /\ ~LeftClamps(angleBetweenChildren)
    /\ ~RightClamps(angleBetweenChildren')

\* C11 as stated: when no clamp is hit, ArrowRight then ArrowLeft, and
\* ArrowLeft then ArrowRight, return the angle, the child positions and the
\* edge end points to exactly their original values.
C11_RoundTripExact ==
    [][/\ RightThenLeft => BackWithin(angleLeft(angleBetweenChildren'), 0, 0)
       /\ LeftThenRight => BackWithin(angleRight(angleBetweenChildren'), 0, 0)
      ]_vars

\* C11: when no clamp is hit, ArrowRight then ArrowLeft, and ArrowLeft then
\* ArrowRight, return the angle to within 2^-52 of its original value, and
\* the child positions and edge end points to within 10^-4 per coordinate.
C11_RoundTripClose ==
    [][/\ RightThenLeft => BackWithin(angleLeft(angleBetweenChildren'), 2^4, 1)
       /\ LeftThenRight => BackWithin(angleRight(angleBetweenChildren'), 2^4, 1)
      ]_vars

\* presses that cancel left the angle beside its initial value, not on it
C11_Witness ==
    /\ lastEvent = "keydown"
    /\ angleBetweenChildren # initialAngle
    /\ Within(angleBetweenChildren, initialAngle, 2^4)

\* C12: a decrement key at the lower bound and an increment key at the upper
\* bound leave the parameter's value as it is.
C12_SaturatedKeyKeepsValue ==
    [][/\ onKeyDown("f") /\ fov = 10 => fov' = 10
       /\ onKeyDown("F") /\ fov = 120 => fov' = 120
       /\ onKeyDown("n") /\ near = Tenth => near' = Tenth
       /\ onKeyDown("N") /\ near = Ten => near' = Ten
       /\ onKeyDown("r") /\ far = 10 => far' = 10
       /\ onKeyDown("R") /\ far = 100 => far' = 100
       /\ onKeyDown("ArrowLeft") /\ IsZero(angleBetweenChildren)
              => angleBetweenChildren' = DblZero
       /\ onKeyDown("ArrowRight") /\ angleBetweenChildren = MathPI
              => angleBetweenChildren' = MathPI
      ]_vars

\* the last of several ArrowRight presses that found the angle at pi
C12_Witness ==
    /\ lastEvent = "keydown"
    /\ angleBetweenChildren = MathPI
    /\ rightRun = MaxRun
    /\ fov = 75 /\ near = Tenth /\ far = 50

\* a step that replaces an edge object: the identities of a rebuild are new,
\* as both old edges are still referred to when the new ones are created
EdgesReplaced == edge1' # edge1 \/ edge2' # edge2

\* C13: once the scene is assembled, a step replaces the edge objects if and
\* only if it changes the value of the angle; render frames, camera keys,
\* resizes, other keys and saturated arrow keys replace nothing.
C13_RebuildIffAngleChanged ==
    [][pc = "running" =>
          (EdgesReplaced <=> angleBetweenChildren' # angleBetweenChildren)]_vars

\* the angle, the child positions and the edge objects are as they were
GeometryKept ==
    /\ UNCHANGED <<angleBetweenChildren, edge1, edge2>>
    /\ heap'[childSphere1].position = heap[childSphere1].position
    /\ heap'[childSphere2].position = heap[childSphere2].position
    /\ heap'[edge1] = heap[edge1]
    /\ heap'[edge2] = heap[edge2]

\* what the program owns: everything but the record of the last event
ProgramState ==
    <<pc, win, renderer, scene, camera, heap, mainSphere, childSphere1,
      childSphere2, edge1, edge2, cameraHelper, fov, near, far,
      angleBetweenChildren, fontLoad, rafPending>>

C15_LayoutOfCurrentAngle ==
    pc = "running" =>
        /\ mainSphere = 1 /\ childSphere1 = 2 /\ childSphere2 = 3
        /\ heap[mainSphere] = createSphere(mainSphereColor)
        /\ heap[childSphere1].kind = "sphere"
        /\ heap[childSphere1].color = childSphereColor
        /\ heap[childSphere2].kind = "sphere"
        /\ heap[childSphere2].color = childSphereColor
        /\ \E s \in {MathSin(HalfAngleFix(angleBetweenChildren))},
              c \in {MathCos(HalfAngleFix(angleBetweenChildren))} :
              /\ heap[childSphere1].position = Vec(s * 3, -3 * Scale, (-c) * 3)
              /\ heap[childSphere2].position = Vec((-s) * 3, -3 * Scale, (-c) * 3)

\* the angle was brought to 0: both children sit right below the root,
\* 3 in front of it
C15_Witness ==
    /\ pc = "running"
    /\ IsZero(angleBetweenChildren)
    /\ heap[childSphere1].position = Vec(0, -3 * Scale, -3 * Scale)
    /\ heap[childSphere2].position = Vec(0, -3 * Scale, -3 * Scale)
    /\ heap[mainSphere].position = Vec(0, 0, 0)

IsLabel(i) == heap[i].kind = "label"

\* the scene holds edge1 and edge2 and no other edge, and the three labels
\* exactly when the font has arrived
TwoEdgesWithOrWithoutLabels ==
    pc = "running" =>
        /\ Len(SelectSeq(scene, IsEdge)) = 2
        /\ edge1 # edge2
        /\ {edge1, edge2} \subseteq Range(scene)
        /\ IsEdge(edge1) /\ IsEdge(edge2)
        /\ Len(SelectSeq(scene, IsLabel)) = IF fontLoad = "done" THEN 3 ELSE 0

\* the geometry updateChildPositions leaves for an angle, whatever the
\* identities of the objects
Geometry(u) ==
    [child1 |-> u.heap[childSphere1].position,
     child2 |-> u.heap[childSphere2].position,
     edge1  |-> u.heap[u.edge1],
     edge2  |-> u.heap[u.edge2],
     edges  |-> Cardinality({i \in Range(u.scene) : u.heap[i].kind = "edge"})]

\* the recompute for an angle gives the same geometry after this step as
\* before it
RecomputeSame(angle) ==
    Geometry(updateChildPositions(heap', scene', mainSphere, childSphere1,
                                  childSphere2, edge1', edge2', cameraHelper, angle))
    = Geometry(updateChildPositions(heap, scene, mainSphere, childSphere1,
                                    childSphere2, edge1, edge2, cameraHelper, angle))

\* C16: whenever the font callback runs, or if it never does, the scene holds
\* the two current edges; the callback appends the three labels to the scene
\* and leaves the angle, the child positions, the edge objects and the camera
\* parameters as they were, and a recompute of the geometry after it gives
\* what it would have given before it.
C16_FontCallbackOnlyAddsLabels ==
    /\ []TwoEdgesWithOrWithoutLabels
    /\ [][fontLoaded =>
             /\ UNCHANGED <<fov, near, far, camera>>
             /\ GeometryKept
             /\ Len(scene') = Len(scene) + 3
             /\ SubSeq(scene', 1, Len(scene)) = scene
             /\ \A i \in (Len(scene) + 1)..Len(scene') : heap'[scene'[i]].kind = "label"
             /\ \A i \in DOMAIN heap : heap'[i] = heap[i]
             /\ RecomputeSame(angleLeft(angleBetweenChildren))
             /\ RecomputeSame(angleRight(angleBetweenChildren))
         ]_vars

\* the labels arrived after the angle had been brought to 0
C16_Witness ==
    /\ lastEvent = "font"
    /\ fontLoad = "done"
    /\ IsZero(angleBetweenChildren)
    /\ Len(SelectSeq(scene, IsLabel)) = 3

\* what a frame shows when every handler before it has run to its end: the
\* camera and the renderer built from the parameters and the window, the
\* children and the edges laid out for the angle
EffectsApplied ==
    /\ camera.fov = fov /\ camera.near = near /\ camera.far = far
    /\ camera.aspect = Aspect(win)
    /\ camera.projection =
           [fov |-> fov, aspect |-> Aspect(win), near |-> near, far |-> far]
    /\ renderer = win
    /\ heap[cameraHelper].frustum = camera.projection
    /\ heap[childSphere1].position = ChildPosition(angleBetweenChildren, 1)
    /\ heap[childSphere2].position = ChildPosition(angleBetweenChildren, -1)
    /\ heap[edge1] = createEdge(heap[mainSphere].position,
                                heap[childSphere1].position)
    /\ heap[edge2] = createEdge(heap[mainSphere].position,
                                heap[childSphere2].position)
    /\ {edge1, edge2} \subseteq Range(scene)

\* C17: once main has run with a canvas, a frame is always requested, and
\* when the browser runs the requested frames every keydown and every resize
\* is followed by a frame that shows the parameters, the window size and the
\* layout as the handlers left them.
C17_EventsGetRendered ==
    /\ [](pc = "running" => rafPending)
    /\ (lastEvent \in {"keydown", "resize"})
           ~> (lastEvent = "render" /\ EffectsApplied)

\* a frame after the window was resized and the angle brought to 0
C17_Witness ==
    /\ lastEvent = "render"
    /\ rafPending
    /\ win = <<1920, 1080>>
    /\ renderer = win
    /\ IsZero(angleBetweenChildren)
    /\ EffectsApplied

=============================================================================
